---- MODULE Spec2Model ----
(***************************************************************************)
(* Model of the token conversion-rate engine (service/calculation.py,      *)
(* core/node.py, service/cache.py): the chain client's retry loops, the    *)
(* metadata cache and its resolvers, swap-log ingestion, the swap graph,   *)
(* path selection, ratio aggregation and decimal scaling.                  *)
(*                                                                         *)
(* Strings are sequences of one-character strings, so that lower(),        *)
(* slicing, hex decoding and the cache's text serialisation are computed   *)
(* and not assumed.  Floats are modelled by exact decimal rationals        *)
(* n/d * 10^e.  ABI words and addresses are scaled down from 32 and 20     *)
(* bytes to WordBytes and AddrBytes.                                       *)
(***************************************************************************)
EXTENDS Integers, Sequences, FiniteSets, TLC

(***************************************************************************)
(* Bounds of the model.                                                    *)
(***************************************************************************)
\* bytes of one ABI word (32 on chain)
WordBytes == 2
\* swap logs in the queried block window
MaxLogs == 2
\* responses other than a well-formed HTTP 200 the node gives in one run
MaxFaults == 1
\* conversion requests served by the process, one after the other
MaxRequests == 2

\* bytes of one address (20 on chain): shorter than a word, left-padded
AddrBytes == WordBytes - 1
WordHexLen == 2 * WordBytes
AddrHexLen == 2 * AddrBytes

(***************************************************************************)
(* Characters and strings.                                                 *)
(***************************************************************************)
Min(a, b) == IF a <= b THEN a ELSE b
Max(a, b) == IF a >= b THEN a ELSE b
Abs(x) == IF x < 0 THEN 0 - x ELSE x

RECURSIVE Pow(_, _)
Pow(b, k) == IF k = 0 THEN 1 ELSE b * Pow(b, k - 1)

RECURSIVE Rep(_, _)
Rep(c, n) == IF n = 0 THEN << >> ELSE <<c>> \o Rep(c, n - 1)

\* str.lower() on one character (only the letters the model uses)
LowerChar(c) ==
    CASE c = "A" -> "a" [] c = "B" -> "b" [] c = "C" -> "c"
      [] c = "D" -> "d" [] c = "E" -> "e" [] c = "F" -> "f"
      [] c = "U" -> "u" [] c = "S" -> "s"
      [] OTHER -> c

\* str.lower()
Lower(s) == [i \in 1..Len(s) |-> LowerChar(s[i])]

\* Python's s[a:b] for 0 <= a <= b: tolerant of a short string
PySlice(s, a, b) == SubSeq(s, a + 1, Min(b, Len(s)))

HexDigits == <<"0", "1", "2", "3", "4", "5", "6", "7",
               "8", "9", "a", "b", "c", "d", "e", "f">>

IsHexChar(c) == \E i \in 1..16 : HexDigits[i] = LowerChar(c)
HexVal(c) == (CHOOSE i \in 1..16 : HexDigits[i] = LowerChar(c)) - 1

\* bytes.fromhex(s) raises ValueError for an odd length or a character that
\* is no hex digit
IsHex(s) == Len(s) % 2 = 0 /\ \A i \in 1..Len(s) : IsHexChar(s[i])
bytes_fromhex(s) ==
    [i \in 1..(Len(s) \div 2) |-> 16 * HexVal(s[2 * i - 1]) + HexVal(s[2 * i])]

RECURSIVE BigEndian(_)
BigEndian(b) ==
    IF Len(b) = 0 THEN 0
    ELSE 256 * BigEndian(SubSeq(b, 1, Len(b) - 1)) + b[Len(b)]

\* int.from_bytes(b, signed=True)  (byteorder "big" is the default)
int_from_bytes_unsigned(b) == BigEndian(b)
int_from_bytes_signed(b) ==
    IF Len(b) > 0 /\ b[1] >= 128
    THEN BigEndian(b) - Pow(256, Len(b))
    ELSE BigEndian(b)

\* abs(int.from_bytes(bytes.fromhex(data[a:b]), signed=True)); ok is FALSE
\* where bytes.fromhex raises ValueError
parse_amount_unsigned(data, a, b) ==
    LET h == PySlice(data, a, b)
    IN  IF ~IsHex(h) THEN [ok |-> FALSE, val |-> 0]
        ELSE [ok |-> TRUE, val |-> Abs(int_from_bytes_unsigned(bytes_fromhex(h)))]
parse_amount(data, a, b) ==
    LET h == PySlice(data, a, b)
    IN  IF ~IsHex(h) THEN [ok |-> FALSE, val |-> 0]
        ELSE [ok |-> TRUE, val |-> Abs(int_from_bytes_signed(bytes_fromhex(h)))]

(***************************************************************************)
(* The node's side of the ABI: how the chain encodes what the engine       *)
(* decodes.                                                                *)
(***************************************************************************)
RECURSIVE HexOf(_, _)
\* the n lowest hex digits of u >= 0, most significant first
HexOf(u, n) ==
    IF n = 0 THEN << >>
    ELSE HexOf(u \div 16, n - 1) \o <<HexDigits[(u % 16) + 1]>>

\* a signed integer as one two's-complement ABI word
EncodeWord(v) == HexOf(v % Pow(256, WordBytes), WordHexLen)

\* a Swap log's data field: "0x", amount0, amount1
EncodeData(amount0, amount1) == <<"0", "x">> \o EncodeWord(amount0) \o EncodeWord(amount1)

\* an address returned by eth_call: "0x", zero padding, the address digits
EncodeAddressWord(addr) ==
    <<"0", "x">> \o Rep("0", WordHexLen - AddrHexLen) \o SubSeq(addr, 3, Len(addr))

(***************************************************************************)
(* Exact arithmetic for the rate: the value n/d * 10^e in its one normal   *)
(* form (gcd(n,d) = 1, d prime to 10, n no multiple of 10), so that equal  *)
(* values are equal records.                                               *)
(***************************************************************************)
RECURSIVE Gcd(_, _)
Gcd(a, b) == IF b = 0 THEN a ELSE Gcd(b, a % b)

RECURSIVE NormDen(_, _, _)
NormDen(n, d, e) ==
    IF d % 2 = 0 THEN NormDen(n * 5, d \div 2, e - 1)
    ELSE IF d % 5 = 0 THEN NormDen(n * 2, d \div 5, e - 1)
    ELSE [n |-> n, d |-> d, e |-> e]

RECURSIVE NormNum(_, _, _)
NormNum(n, d, e) ==
    IF n = 0 THEN [n |-> 0, d |-> 1, e |-> 0]
    ELSE IF n % 10 = 0 THEN NormNum(n \div 10, d, e + 1)
    ELSE [n |-> n, d |-> d, e |-> e]

\* the normal form of n/d * 10^e, for n >= 0 and d > 0
Rat(n, d, e) ==
    LET g == Gcd(n, d)
        x == NormDen(n \div g, d \div g, e)
    IN  NormNum(x.n, x.d, x.e)

RatOne == Rat(1, 1, 0)
RatInt(k) == Rat(k, 1, 0)
\* 10 ** k
Pow10(k) == Rat(1, 1, k)
RatMul(x, y) == Rat(x.n * y.n, x.d * y.d, x.e + y.e)
\* x / y for y # 0 (Python raises ZeroDivisionError for y = 0)
RatDiv(x, y) == Rat(x.n * y.d, x.d * y.n, x.e - y.e)
RatIsZero(x) == x.n = 0

(***************************************************************************)
(* The chain: the contracts the node answers for.  Addresses are "0x" and  *)
(* AddrHexLen hex digits.                                                  *)
(***************************************************************************)
Addr(c) == <<"0", "x">> \o Rep(c, AddrHexLen)
PoolAddr(c, k) == <<"0", "x">> \o Rep(c, AddrHexLen - 1) \o <<k>>

TokA == Addr("a")
TokAUp == Addr("A")
TokB == Addr("b")
TokC == Addr("c")
TokD == Addr("d")
Pool1 == PoolAddr("e", "1")
Pool1Up == PoolAddr("E", "1")
Pool2 == PoolAddr("e", "2")
Pool3 == PoolAddr("e", "3")
Pool4 == PoolAddr("e", "4")

\* token0() and token1() of the pool contracts (the node takes any letter case)
ChainPoolTokens(p) ==
    CASE Lower(p) = Pool1 -> <<TokA, TokB>>
      [] Lower(p) = Pool2 -> <<TokC, TokB>>
      [] Lower(p) = Pool3 -> <<TokC, TokD>>
      [] Lower(p) = Pool4 -> <<TokB, TokA>>

\* decimals() of the token contracts
ChainDecimals(t) ==
    CASE Lower(t) = TokA -> 18
      [] Lower(t) = TokB -> 18
      [] Lower(t) = TokC -> 6
      [] Lower(t) = TokD -> 0

\* symbol() of the token contracts, as the decoded text: "x00".."x0a" stand
\* for the control characters 0x00..0x0A
ChainSymbol(t) ==
    CASE Lower(t) = TokA -> <<"U", "S", "x00", "D", "C", " ">>
      [] Lower(t) = TokB -> <<" ", "x04", "D", "A", "I", "x00">>
      [] Lower(t) = TokC -> <<"x09", "E", "x0a", "T", "H">>
      [] Lower(t) = TokD -> << >>

\* the Swap events a block window may hold: pool, amount0, amount1; the
\* node sends the data field of a garbled event with characters that are
\* no hex digits
SwapEvents ==
    { [address |-> Pool1,   amount0 |-> 1000,     amount1 |-> 0 - 2000, garbled |-> FALSE],
      [address |-> Pool1Up, amount0 |-> 1000,     amount1 |-> 0 - 2000, garbled |-> FALSE],
      [address |-> Pool1,   amount0 |-> 0,        amount1 |-> 500,      garbled |-> FALSE],
      [address |-> Pool2,   amount0 |-> 2000,     amount1 |-> 0 - 1000, garbled |-> FALSE],
      [address |-> Pool2,   amount0 |-> 0 - 500,  amount1 |-> 0,        garbled |-> FALSE],
      [address |-> Pool3,   amount0 |-> 0 - 1000, amount1 |-> 500,      garbled |-> FALSE],
      [address |-> Pool4,   amount0 |-> 0 - 3,    amount1 |-> 1,        garbled |-> FALSE],
      [address |-> Pool1,   amount0 |-> 1000,     amount1 |-> 0 - 2000, garbled |-> TRUE] }

SeqsUpTo(S, n) == UNION { [1..k -> S] : k \in 0..n }

\* the JSON log eth_getLogs returns for an event
RawLog(ev) ==
    [address |-> ev.address,
     data |-> IF ev.garbled
              THEN <<"0", "x">> \o Rep("z", WordHexLen) \o EncodeWord(ev.amount1)
              ELSE EncodeData(ev.amount0, ev.amount1)]

(***************************************************************************)
(* The metadata cache (service/cache.py): three Redis databases holding    *)
(* text.  A cache is a record of three functions from key to stored text,  *)
(* and the number of SET commands each database has had for each key.      *)
(***************************************************************************)
Put(f, k, v) == (k :> v) @@ f
Bump(f, k) == IF k \in DOMAIN f THEN [f EXCEPT ![k] = @ + 1] ELSE Put(f, k, 1)
AppendAt(f, k, e) == IF k \in DOMAIN f THEN [f EXCEPT ![k] = Append(@, e)] ELSE Put(f, k, <<e>>)
Count(f, k) == IF k \in DOMAIN f THEN f[k] ELSE 0

RECURSIVE Split(_, _)
\* str.split(sep) for a one-character separator
Split(s, sep) ==
    IF \A i \in 1..Len(s) : s[i] # sep THEN <<s>>
    ELSE LET i == CHOOSE j \in 1..Len(s) :
                      s[j] = sep /\ \A k \in 1..(j - 1) : s[k] # sep
         IN  <<SubSeq(s, 1, i - 1)>> \o Split(SubSeq(s, i + 1, Len(s)), sep)

DecDigits == <<"0", "1", "2", "3", "4", "5", "6", "7", "8", "9">>

RECURSIVE IntToStr(_)
\* str(n) for n >= 0, as Redis stores an integer value
IntToStr(n) ==
    IF n < 10 THEN <<DecDigits[n + 1]>>
    ELSE IntToStr(n \div 10) \o <<DecDigits[(n % 10) + 1]>>

RECURSIVE StrToInt(_)
\* int(text) for decimal digits
StrToInt(s) ==
    IF Len(s) = 0 THEN 0
    ELSE 10 * StrToInt(SubSeq(s, 1, Len(s) - 1))
         + ((CHOOSE i \in 1..10 : DecDigits[i] = s[Len(s)]) - 1)

\* the characters of symbols and their byte codes
SymbolChars == <<"x00", "x04", "x09", "x0a", " ", "A", "C", "D", "E", "H", "I", "S", "T", "U">>
SymbolCodes == <<0, 4, 9, 10, 32, 65, 67, 68, 69, 72, 73, 83, 84, 85>>
\* str to bytes on the way into Redis, .decode() on the way out
Utf8Encode(s) ==
    [i \in 1..Len(s) |-> SymbolCodes[CHOOSE j \in 1..Len(SymbolChars) : SymbolChars[j] = s[i]]]
Utf8Decode(b) ==
    [i \in 1..Len(b) |-> SymbolChars[CHOOSE j \in 1..Len(SymbolCodes) : SymbolCodes[j] = b[i]]]

EmptyCache == [pool |-> << >>, decimals |-> << >>, symbol |-> << >>, writes |-> << >>]
\* a lookup answers [hit, val]; hit = FALSE is Python's None
Miss == [hit |-> FALSE, val |-> << >>]

set_pool_pair(c, pool_address, tokens) ==
    [c EXCEPT !.pool = Put(@, pool_address, tokens[1] \o <<",">> \o tokens[2]),
              !.writes = Bump(@, <<"pool", pool_address>>)]
get_pool_pair_never_hits(c, pool_address) == Miss
get_pool_pair(c, pool_address) ==
    IF pool_address \in DOMAIN c.pool
    THEN [hit |-> TRUE, val |-> Split(c.pool[pool_address], ",")]
    ELSE Miss

set_token_decimals(c, token_address, decimals) ==
    [c EXCEPT !.decimals = Put(@, token_address, IntToStr(decimals)),
              !.writes = Bump(@, <<"decimals", token_address>>)]
get_cached_token_decimals_zero_is_miss(c, token_address) ==
    IF token_address \in DOMAIN c.decimals /\ StrToInt(c.decimals[token_address]) # 0
    THEN [hit |-> TRUE, val |-> StrToInt(c.decimals[token_address])]
    ELSE Miss
get_cached_token_decimals(c, token_address) ==
    IF token_address \in DOMAIN c.decimals
    THEN [hit |-> TRUE, val |-> StrToInt(c.decimals[token_address])]
    ELSE Miss

set_token_symbol(c, token_address, symbol) ==
    [c EXCEPT !.symbol = Put(@, token_address, Utf8Encode(symbol)),
              !.writes = Bump(@, <<"symbol", token_address>>)]
get_cached_token_symbol(c, token_address) ==
    IF token_address \in DOMAIN c.symbol
    THEN [hit |-> TRUE, val |-> Utf8Decode(c.symbol[token_address])]
    ELSE Miss

(***************************************************************************)
(* What the chain client decodes from a well-formed HTTP 200 response.     *)
(***************************************************************************)
\* "0x" + result[26:66], with the offsets of the scaled word
TokenSliceFrom == 2 + (WordHexLen - AddrHexLen)
TokenSliceTo == 2 + WordHexLen
decode_pool_token(result) == <<"0", "x">> \o PySlice(result, TokenSliceFrom, TokenSliceTo)

RECURSIVE HexToInt(_)
HexToInt(s) ==
    IF Len(s) = 0 THEN 0 ELSE 16 * HexToInt(SubSeq(s, 1, Len(s) - 1)) + HexVal(s[Len(s)])
\* int(result, 16) for a "0x"-prefixed result
decode_decimals(result) == HexToInt(SubSeq(result, 3, Len(result)))

\* the chain calls: <<function, address>>
LogsCall == <<"eth_getLogs", << >> >>
Token0Call(p) == <<"token0", p>>
Token1Call(p) == <<"token1", p>>
DecimalsCall(t) == <<"decimals", t>>
SymbolCall(t) == <<"symbol", t>>

\* a call starts with its first session.post sent
NewCall == [st |-> "inflight", resp |-> "none", val |-> << >>, left |-> 0,
            posts |-> 1, sleeps |-> 0, fatal |-> FALSE]

\* responses of the node: a well-formed 200, a 200 whose body does not
\* decode, 429, another status, and a transport failure of session.post
Responses == {"ok", "malformed", "s429", "s500", "neterr"}

(***************************************************************************)
(* Swap records, the swap graph, shortest paths and ratio aggregation      *)
(* (service/calculation.py, get_swaps and get_token_conversion_rate).      *)
(***************************************************************************)
\* offsets of amount0 and amount1 in the data field: [2:66] and [66:130]
DataFrom0 == 2
DataFrom1 == 2 + WordHexLen
DataTo1 == 2 + 2 * WordHexLen

\* the SwapEvent of one log (lines 133-145)
SwapEvent_swapped_tokens(log, tokens) ==
    [address |-> Lower(log.address),
     from_token |-> Lower(tokens[2]),
     to_token |-> Lower(tokens[1]),
     from_amount |-> parse_amount(log.data, DataFrom0, DataFrom1).val,
     to_amount |-> parse_amount(log.data, DataFrom1, DataTo1).val]
SwapEvent(log, tokens) ==
    [address |-> Lower(log.address),
     from_token |-> Lower(tokens[1]),
     to_token |-> Lower(tokens[2]),
     from_amount |-> parse_amount(log.data, DataFrom0, DataFrom1).val,
     to_amount |-> parse_amount(log.data, DataFrom1, DataTo1).val]

\* a log whose construction raises: the pair does not unpack, or a field
\* does not parse
LogRaises(log, tokens) ==
    \/ Len(tokens) # 2
    \/ ~parse_amount(log.data, DataFrom0, DataFrom1).ok
    \/ ~parse_amount(log.data, DataFrom1, DataTo1).ok

\* the loop of lines 130-147 over logs that parse: one SwapEvent per log
parse_logs_skips_zero_amounts(logs, pairs) ==
    SelectSeq([i \in 1..Len(logs) |-> SwapEvent(logs[i], pairs[logs[i].address])],
              LAMBDA sw : sw.from_amount # 0 /\ sw.to_amount # 0)
parse_logs(logs, pairs) ==
    [i \in 1..Len(logs) |-> SwapEvent(logs[i], pairs[logs[i].address])]

\* token_addresses (lines 191-194): the nodes of the graph
TokenAddresses(sw) ==
    {sw[i].from_token : i \in 1..Len(sw)} \cup {sw[i].to_token : i \in 1..Len(sw)}

\* the edge of swap s joins u and v (the graph is undirected)
Joins(s, u, v) ==
    \/ s.from_token = u /\ s.to_token = v
    \/ s.from_token = v /\ s.to_token = u

\* the PyGraph of lines 200-209: one node per token address (the ids of
\* token_id_map stand for the addresses one to one), one edge per swap in
\* the order of the swaps, the swap as its payload
PyGraph_merges_parallel_edges(sw) ==
    [nodes |-> TokenAddresses(sw),
     edges |-> SelectSeq([i \in 1..Len(sw) |-> [a |-> sw[i].from_token, b |-> sw[i].to_token,
                                                data |-> sw[i]]],
                         LAMBDA e : e.data = sw[CHOOSE j \in 1..Len(sw) :
                                                  /\ Joins(sw[j], e.a, e.b)
                                                  /\ \A k \in 1..(j - 1) : ~Joins(sw[k], e.a, e.b)])]
PyGraph(sw) ==
    [nodes |-> TokenAddresses(sw),
     edges |-> [i \in 1..Len(sw) |-> [a |-> sw[i].from_token, b |-> sw[i].to_token,
                                      data |-> sw[i]]]]

\* the edges graph.get_edge_data(u, v) may return: with parallel edges,
\* which one is the library's choice
EdgesBetween(sw, u, v) ==
    {i \in 1..Len(PyGraph(sw).edges) :
        \/ PyGraph(sw).edges[i].a = u /\ PyGraph(sw).edges[i].b = v
        \/ PyGraph(sw).edges[i].a = v /\ PyGraph(sw).edges[i].b = u}

PathsOfLen(sw, src, dst, k) ==
    {p \in [1..(k + 1) -> TokenAddresses(sw)] :
        /\ p[1] = src
        /\ p[k + 1] = dst
        /\ \A i \in 1..k : EdgesBetween(sw, p[i], p[i + 1]) # {}}

\* rx.graph_all_shortest_paths for two different nodes of the graph, after
\* the deduplication of line 222
graph_all_shortest_paths_longest(sw, src, dst) ==
    LET ks == {k \in 1..Cardinality(TokenAddresses(sw)) : PathsOfLen(sw, src, dst, k) # {}}
    IN  IF ks = {} THEN {}
        ELSE PathsOfLen(sw, src, dst, CHOOSE k \in ks : \A j \in ks : k >= j)
graph_all_shortest_paths(sw, src, dst) ==
    LET ks == {k \in 1..Cardinality(TokenAddresses(sw)) : PathsOfLen(sw, src, dst, k) # {}}
    IN  IF ks = {} THEN {}
        ELSE PathsOfLen(sw, src, dst, CHOOSE k \in ks : \A j \in ks : k <= j)

\* SwapEvent.ratio (line 109), for from_amount # 0
ratio(s) == Rat(s.to_amount, s.from_amount, 0)

\* one pass of the loop of lines 231-239 on hop i with swap s; ok = FALSE
\* is a ZeroDivisionError
hop_ratio_always_multiply(acc, s, u, v) ==
    IF ~acc.ok \/ s.from_amount = 0 THEN [ok |-> FALSE, val |-> acc.val]
    ELSE [ok |-> TRUE, val |-> RatMul(acc.val, ratio(s))]
hop_ratio_skips_zero_amounts(acc, s, u, v) ==
    IF ~acc.ok THEN acc
    ELSE IF s.from_amount = 0 THEN acc
    ELSE IF s.from_token = u /\ s.to_token = v
         THEN [ok |-> TRUE, val |-> RatMul(acc.val, ratio(s))]
    ELSE IF s.to_token = u /\ s.from_token = v
         THEN IF RatIsZero(ratio(s)) THEN acc
              ELSE [ok |-> TRUE, val |-> RatDiv(acc.val, ratio(s))]
    ELSE acc
hop_ratio(acc, s, u, v) ==
    IF ~acc.ok \/ s.from_amount = 0 THEN [ok |-> FALSE, val |-> acc.val]
    ELSE IF s.from_token = u /\ s.to_token = v
         THEN [ok |-> TRUE, val |-> RatMul(acc.val, ratio(s))]
    ELSE IF s.to_token = u /\ s.from_token = v
         THEN IF RatIsZero(ratio(s)) THEN [ok |-> FALSE, val |-> acc.val]
              ELSE [ok |-> TRUE, val |-> RatDiv(acc.val, ratio(s))]
    ELSE acc

RECURSIVE aggregate(_, _, _, _)
\* total_ratio after the first i hops of path p, es[j] the swap of hop j
aggregate(sw, p, es, i) ==
    IF i = 0 THEN [ok |-> TRUE, val |-> RatInt(1)]
    ELSE hop_ratio(aggregate(sw, p, es, i - 1), sw[es[i]], p[i], p[i + 1])

\* lines 245-246
scale_swapped(r, d0, d1) == RatDiv(RatMul(r, Pow10(d1)), Pow10(d0))
scale(r, d0, d1) == RatDiv(RatMul(r, Pow10(d0)), Pow10(d1))

RECURSIVE RemoveAll(_, _)
\* symbol.replace(char, "")
RemoveAll(s, c) ==
    IF Len(s) = 0 THEN << >>
    ELSE (IF s[1] = c THEN << >> ELSE <<s[1]>>) \o RemoveAll(Tail(s), c)

REPLACE_CHARS == <<"x00", "x01", "x02", "x03", "x04", "x05", "x06", "x07", "x08", "x09", " ">>

RECURSIVE replace_chars(_, _)
\* the loop of lines 252-253 over the first k REPLACE_CHARS
replace_chars(s, k) ==
    IF k = 0 THEN s ELSE RemoveAll(replace_chars(s, k - 1), REPLACE_CHARS[k])

parse_symbol_keeps_space(symbol) == replace_chars(symbol, Len(REPLACE_CHARS) - 1)
parse_symbol(symbol) == replace_chars(symbol, Len(REPLACE_CHARS))

(***************************************************************************)
(* State.                                                                  *)
(***************************************************************************)
VARIABLES
    token0In,    \* the request: token0 as given by the caller
    token1In,    \* the request: token1 as given by the caller
    block_number,\* the request: the block height
    chainLogs,   \* the Swap events of the queried block window
    reqNo,       \* conversion requests started so far
    pc,          \* where get_token_conversion_rate stands
    awaiting,    \* it is suspended in a fetch of token decimals or symbol
    sessions,    \* the requests whose ClientSession is open
    frame,       \* the local variables of get_token_conversion_rate
    net,         \* the chain calls of the request, by call
    faults,      \* responses other than a well-formed 200 given so far
    cache,       \* the Redis databases
    result,      \* the dictionary returned
    error,       \* the exception raised
    issued,      \* history: chain calls issued so far, by call
    resolved     \* history: the resolutions completed, by namespace and key

vars == <<token0In, token1In, block_number, chainLogs, reqNo, pc, awaiting, sessions, frame,
          net, faults, cache, result, error, issued, resolved>>

world == <<token0In, token1In, block_number, chainLogs>>

NoFrame ==
    [token0 |-> << >>, token1 |-> << >>, logs |-> << >>,
     pool_addresses |-> {}, pool_tokens |-> << >>, swaps |-> << >>, got_swaps |-> FALSE,
     graph |-> PyGraph(<< >>), lookups |-> 0,
     fromBlock |-> << >>, toBlock |-> << >>, pool_resolutions |-> << >>,
     cache_at_start |-> EmptyCache,
     path |-> << >>, hops |-> << >>, raw_ratio |-> RatInt(1), total_ratio |-> RatInt(1),
     token0_decimals |-> 0, token1_decimals |-> 0,
     raw_symbol0 |-> << >>, raw_symbol1 |-> << >>, token0_symbol |-> << >>]

NoResult ==
    [conversion_rate |-> RatInt(0), token0_decimals |-> 0, token1_decimals |-> 0,
     token0_symbol |-> << >>, token1_symbol |-> << >>, token_pair_path |-> << >>]

\* the requests: token0, token1 and the block height as the caller gives
\* them
Requests ==
    {<<TokA, TokB, 18000300>>, <<TokA, TokC, 100>>, <<TokAUp, TokC, 99>>, <<TokAUp, TokA, 0>>}

\* the width of the block window (line 185)
BLOCK_RANGE == 200

\* the block range of line 187: BLOCK_RANGE/2 is the float 100.0, exact for
\* every block height below 2^53, and int() gives the integer back
from_block(b) == b - (BLOCK_RANGE \div 2)
to_block(b) == b + (BLOCK_RANGE \div 2)

RECURSIVE HexDigitsOf(_)
\* the hexadecimal digits of a natural number, without leading zeros
HexDigitsOf(n) ==
    IF n < 16 THEN <<HexDigits[n + 1]>>
    ELSE HexDigitsOf(n \div 16) \o <<HexDigits[(n % 16) + 1]>>

\* Python's hex(): "0x..." and, for a negative integer, "-0x..."
hex(n) ==
    IF n < 0 THEN <<"-", "0", "x">> \o HexDigitsOf(-n)
    ELSE <<"0", "x">> \o HexDigitsOf(n)

Init ==
    /\ \E r \in Requests : token0In = r[1] /\ token1In = r[2] /\ block_number = r[3]
    /\ chainLogs \in SeqsUpTo(SwapEvents, MaxLogs)
    /\ reqNo = 0
    /\ pc = "idle"
    /\ awaiting = FALSE
    /\ sessions = {}
    /\ frame = NoFrame
    /\ net = << >>
    /\ faults = 0
    /\ cache = EmptyCache
    /\ result = NoResult
    /\ error = ""
    /\ issued = << >>
    /\ resolved = << >>


(***************************************************************************)
(* get_token_conversion_rate, lines 174-187: lower-case the tokens, open   *)
(* the session, create the four resolver coroutines (they do not run until *)
(* awaited) and call get_swaps, which calls get_raw_swap_logs.             *)
(***************************************************************************)
Start_runs_the_resolvers ==
    /\ pc \in {"idle", "done", "failed"}
    /\ reqNo < MaxRequests
    /\ reqNo' = reqNo + 1
    /\ LET t == Lower(token0In)
           decimals == get_cached_token_decimals(cache, t)
       IN  /\ frame' = [NoFrame EXCEPT !.token0 = t, !.token1 = Lower(token1In),
                                       !.fromBlock = hex(from_block(block_number)),
                                       !.toBlock = hex(to_block(block_number)),
                                       !.cache_at_start = cache,
                                       !.lookups = 1]
           /\ cache' = IF decimals.hit THEN set_token_decimals(cache, t, decimals.val)
                                       ELSE cache
           /\ net' = IF decimals.hit THEN (LogsCall :> NewCall)
                     ELSE Put((LogsCall :> NewCall), DecimalsCall(t), NewCall)
           /\ issued' = IF decimals.hit THEN Bump(issued, LogsCall)
                        ELSE Bump(Bump(issued, LogsCall), DecimalsCall(t))
    /\ sessions' = sessions \cup {reqNo + 1}
    /\ pc' = "get_raw_swap_logs"
    /\ awaiting' = FALSE
    /\ result' = NoResult
    /\ error' = ""
    /\ UNCHANGED <<world, faults, resolved>>
Start ==
    /\ pc \in {"idle", "done", "failed"}
    /\ reqNo < MaxRequests
    /\ reqNo' = reqNo + 1
    /\ frame' = [NoFrame EXCEPT !.token0 = Lower(token0In), !.token1 = Lower(token1In),
                                !.fromBlock = hex(from_block(block_number)),
                                !.toBlock = hex(to_block(block_number)),
                                !.cache_at_start = cache]
    /\ sessions' = sessions \cup {reqNo + 1}
    /\ net' = (LogsCall :> NewCall)
    /\ issued' = Bump(issued, LogsCall)
    /\ pc' = "get_raw_swap_logs"
    /\ awaiting' = FALSE
    /\ result' = NoResult
    /\ error' = ""
    /\ UNCHANGED <<world, faults, cache, resolved>>

(***************************************************************************)
(* The chain client (core/node.py): the retry loops.                       *)
(***************************************************************************)
\* one asyncio.sleep(1) is over; after the last one the loop posts again
Wake(c) ==
    /\ c \in DOMAIN net
    /\ net[c].st = "sleeping"
    /\ net' = [net EXCEPT ![c].left = @ - 1,
                          ![c].sleeps = @ + 1,
                          ![c].posts = IF net[c].left = 1 THEN @ + 1 ELSE @,
                          ![c].st = IF net[c].left = 1 THEN "inflight" ELSE "sleeping"]
    /\ UNCHANGED <<world, reqNo, pc, awaiting, sessions, frame, faults, cache,
                   result, error, issued, resolved>>

\* the node answers call c with a response of kind k
Answered_blocked_by_sleepers(c, k) ==
    /\ c \in DOMAIN net
    /\ net[c].st = "inflight"
    /\ \A d \in DOMAIN net : net[d].st # "sleeping"
    /\ k # "ok" => faults < MaxFaults
    /\ faults' = IF k = "ok" THEN faults ELSE faults + 1
    /\ UNCHANGED <<world, reqNo, pc, awaiting, sessions, frame, cache,
                   result, error, issued, resolved>>
Answered(c, k) ==
    /\ c \in DOMAIN net
    /\ net[c].st = "inflight"
    /\ k # "ok" => faults < MaxFaults
    /\ faults' = IF k = "ok" THEN faults ELSE faults + 1
    /\ UNCHANGED <<world, reqNo, pc, awaiting, sessions, frame, cache,
                   result, error, issued, resolved>>

Returned(call, v, k) == [call EXCEPT !.st = "returned", !.val = v, !.resp = k]
Raised(call, k) == [call EXCEPT !.st = "raised", !.resp = k, !.fatal = (@ \/ k = "s500")]
Sleeping(call, k, n) ==
    [call EXCEPT !.st = "sleeping", !.left = n, !.resp = k, !.fatal = (@ \/ k = "s500")]

\* get_raw_swap_logs, lines 107-124: a 200 returns the logs; any other
\* status sleeps and retries; an exception is raised again (line 121)
get_raw_swap_logs_loop(call, k) ==
    CASE k = "ok" -> Returned(call, [i \in 1..Len(chainLogs) |-> RawLog(chainLogs[i])], k)
      [] k \in {"s429", "s500"} -> Sleeping(call, k, 1)
      [] OTHER -> Raised(call, k)

get_raw_swap_logs(k) ==
    /\ Answered(LogsCall, k)
    /\ net' = [net EXCEPT ![LogsCall] = get_raw_swap_logs_loop(@, k)]

\* get_single_pool_token_async, lines 46-61: a 429 sleeps inside the with
\* block and then falls through to the raise of line 57; every exception,
\* that one included, is caught by line 59, which sleeps and retries
get_single_pool_token_async_loop(call, p, token, k) ==
    CASE k = "ok" ->
            Returned(call, decode_pool_token(EncodeAddressWord(ChainPoolTokens(p)[token + 1])), k)
      [] k = "s429" -> Sleeping(call, k, 2)
      [] OTHER -> Sleeping(call, k, 1)

get_single_pool_token_async(p, token, k) ==
    LET c == IF token = 0 THEN Token0Call(p) ELSE Token1Call(p)
    IN  /\ Answered(c, k)
        /\ net' = [net EXCEPT ![c] = get_single_pool_token_async_loop(@, p, token, k)]

\* get_token_decimals, lines 148-162: a 200 returns int(result, 16); any
\* other status and any exception sleeps and retries
fetch_token_decimals_loop(call, t, k) ==
    IF k = "ok"
    THEN Returned(call, decode_decimals(<<"0", "x">> \o EncodeWord(ChainDecimals(t))), k)
    ELSE Sleeping(call, k, 1)

fetch_token_decimals(t, k) ==
    /\ Answered(DecimalsCall(t), k)
    /\ net' = [net EXCEPT ![DecimalsCall(t)] = fetch_token_decimals_loop(@, t, k)]

\* get_token_symbol, lines 183-197: as for the decimals
fetch_token_symbol_loop(call, t, k) ==
    IF k = "ok" THEN Returned(call, ChainSymbol(t), k) ELSE Sleeping(call, k, 1)

fetch_token_symbol(t, k) ==
    /\ Answered(SymbolCall(t), k)
    /\ net' = [net EXCEPT ![SymbolCall(t)] = fetch_token_symbol_loop(@, t, k)]

(***************************************************************************)
(* The resolvers and get_swaps (service/calculation.py).                   *)
(***************************************************************************)
PoolKey(p) == <<"pool", p>>
DecimalsKey(t) == <<"decimals", t>>
SymbolKey(t) == <<"symbol", t>>

RECURSIVE begin_pools(_, _)
\* asyncio.gather starts one get_pool_tokens task per pool address (line
\* 126).  Each runs to its first await: a cached pair is written back and
\* returned (lines 75-85), a miss calls get_pool_tokens_async, which
\* gathers the token0 and the token1 call (node.py lines 74-75).
\* s = [cache, pool_tokens, pool_resolutions, net, issued, resolved]
begin_pools(s, ps) ==
    IF ps = {} THEN s
    ELSE LET p == CHOOSE q \in ps : TRUE
             tokens == get_pool_pair(s.cache, p)
             t == IF tokens.hit
                  THEN [s EXCEPT !.cache = set_pool_pair(@, p, tokens.val),
                                 !.pool_tokens = Put(@, p, tokens.val),
                                 !.pool_resolutions = Bump(@, p),
                                 !.resolved = AppendAt(@, PoolKey(p),
                                                  [val |-> tokens.val, hit |-> TRUE])]
                  ELSE [s EXCEPT !.net = Put(Put(@, Token0Call(p), NewCall),
                                             Token1Call(p), NewCall),
                                 !.issued = Bump(Bump(@, Token0Call(p)), Token1Call(p))]
         IN  begin_pools(t, ps \ {p})

\* get_swaps, lines 120-126: the logs are in; resolve their pools
get_swaps_gather ==
    /\ pc = "get_raw_swap_logs"
    /\ net[LogsCall].st = "returned"
    /\ LET logs == net[LogsCall].val
           pool_addresses == {logs[i].address : i \in 1..Len(logs)}
           s == begin_pools([cache |-> cache, pool_tokens |-> << >>,
                             pool_resolutions |-> << >>, net |-> net,
                             issued |-> issued, resolved |-> resolved], pool_addresses)
       IN  /\ frame' = [frame EXCEPT !.logs = logs,
                                     !.pool_addresses = pool_addresses,
                                     !.pool_tokens = s.pool_tokens,
                                     !.pool_resolutions = s.pool_resolutions]
           /\ cache' = s.cache
           /\ net' = s.net
           /\ issued' = s.issued
           /\ resolved' = s.resolved
    /\ pc' = "get_pool_tokens"
    /\ UNCHANGED <<world, reqNo, awaiting, sessions, faults, result, error>>

\* get_raw_swap_logs raised: the exception leaves get_swaps and
\* get_token_conversion_rate (nothing catches it; the session stays open)
get_swaps_raises ==
    /\ pc = "get_raw_swap_logs"
    /\ net[LogsCall].st = "raised"
    /\ pc' = "failed"
    /\ error' = "ClientError"
    /\ UNCHANGED <<world, reqNo, awaiting, sessions, frame, net, faults, cache,
                   result, issued, resolved>>

\* get_pool_tokens_async, node.py lines 74-77: asyncio.gather returns the
\* results in the order of its tasks, token0 then token1, whichever call
\* completed first
get_pool_tokens_async_fewest_posts_first(n, p) ==
    IF n[Token1Call(p)].posts < n[Token0Call(p)].posts
    THEN <<n[Token1Call(p)].val, n[Token0Call(p)].val>>
    ELSE <<n[Token0Call(p)].val, n[Token1Call(p)].val>>
get_pool_tokens_async(n, p) == <<n[Token0Call(p)].val, n[Token1Call(p)].val>>

\* get_pool_tokens, lines 78-85, after get_pool_tokens_async (node.py lines
\* 75-77) has both tokens: cache the pair and return it
get_pool_tokens_per_log(p) ==
    /\ pc = "get_pool_tokens"
    /\ \E i \in 1..Len(frame.logs) : frame.logs[i].address = p
    /\ Count(frame.pool_resolutions, p) < Len(frame.logs)
    /\ net[Token0Call(p)].st = "returned"
    /\ net[Token1Call(p)].st = "returned"
    /\ LET tokens == get_pool_tokens_async(net, p)
       IN  /\ cache' = set_pool_pair(cache, p, tokens)
           /\ frame' = [frame EXCEPT !.pool_tokens = Put(@, p, tokens),
                                     !.pool_resolutions = Bump(@, p)]
           /\ resolved' = AppendAt(resolved, PoolKey(p), [val |-> tokens, hit |-> FALSE])
    /\ UNCHANGED <<world, reqNo, pc, awaiting, sessions, net, faults, result,
                   error, issued>>
get_pool_tokens(p) ==
    /\ pc = "get_pool_tokens"
    /\ p \in frame.pool_addresses \ DOMAIN frame.pool_tokens
    /\ net[Token0Call(p)].st = "returned"
    /\ net[Token1Call(p)].st = "returned"
    /\ LET tokens == get_pool_tokens_async(net, p)
       IN  /\ cache' = set_pool_pair(cache, p, tokens)
           /\ frame' = [frame EXCEPT !.pool_tokens = Put(@, p, tokens),
                                     !.pool_resolutions = Bump(@, p)]
           /\ resolved' = AppendAt(resolved, PoolKey(p), [val |-> tokens, hit |-> FALSE])
    /\ UNCHANGED <<world, reqNo, pc, awaiting, sessions, net, faults, result,
                   error, issued>>

\* the outcome of lines 129-239 for swaps sw: an error, or a path with the
\* swap of each hop and the aggregated ratio.  paths is what
\* graph_all_shortest_paths returned, p the first path of the deduplicated
\* list, es[i] the edge get_edge_data returned for hop i
rate_error_no_token_check(sw, token0, token1, paths) ==
    IF paths = {} THEN "NoPath" ELSE ""
rate_error_index_error(sw, token0, token1, paths) ==
    IF token0 \notin TokenAddresses(sw) THEN "Token0NotFound"
    ELSE IF token1 \notin TokenAddresses(sw) THEN "Token1NotFound"
    ELSE IF paths = {} THEN "IndexError"
    ELSE ""
rate_error(sw, token0, token1, paths) ==
    IF token0 \notin TokenAddresses(sw) THEN "Token0NotFound"
    ELSE IF token1 \notin TokenAddresses(sw) THEN "Token1NotFound"
    ELSE IF paths = {} THEN "NoPath"
    ELSE ""

HopChoices(sw, p) ==
    {es \in [1..(Len(p) - 1) -> 1..Len(sw)] :
        \A i \in 1..(Len(p) - 1) : es[i] \in EdgesBetween(sw, p[i], p[i + 1])}

\* get_swaps, lines 127-149, and get_token_conversion_rate, lines 188-239:
\* every pool is resolved; build the swaps and the graph, pick the path and
\* aggregate the ratio.  No await lies between these lines.
get_swaps_parse ==
    /\ pc = "get_pool_tokens"
    /\ DOMAIN frame.pool_tokens = frame.pool_addresses
    /\ LET logs == frame.logs
           pairs == frame.pool_tokens
       IN  IF \E i \in 1..Len(logs) : LogRaises(logs[i], pairs[logs[i].address])
           THEN /\ pc' = "failed"
                /\ error' = "ValueError"
                /\ frame' = frame
           ELSE LET sw == parse_logs(logs, pairs)
                IN  \E paths \in (IF frame.token0 = frame.token1
                                  THEN {{}, {<<frame.token0>>}}
                                  ELSE {graph_all_shortest_paths(sw, frame.token0, frame.token1)}) :
                      LET err == rate_error(sw, frame.token0, frame.token1, paths)
                      IN  IF err # ""
                          THEN /\ pc' = "failed"
                               /\ error' = err
                               /\ frame' = [frame EXCEPT !.swaps = sw, !.got_swaps = TRUE,
                                                          !.graph = PyGraph(sw)]
                          ELSE \E p \in paths : \E es \in HopChoices(sw, p) :
                                 LET agg == aggregate(sw, p, es, Len(p) - 1)
                                 IN  IF ~agg.ok
                                     THEN /\ pc' = "failed"
                                          /\ error' = "ZeroDivisionError"
                                          /\ frame' = [frame EXCEPT !.swaps = sw,
                                                          !.got_swaps = TRUE,
                                                          !.graph = PyGraph(sw),
                                                          !.path = p, !.hops = es]
                                     ELSE /\ pc' = "token0_decimals"
                                          /\ error' = ""
                                          /\ frame' = [frame EXCEPT !.swaps = sw,
                                                          !.got_swaps = TRUE,
                                                          !.graph = PyGraph(sw),
                                                          !.path = p, !.hops = es,
                                                          !.raw_ratio = agg.val,
                                                          !.total_ratio = agg.val]
    /\ UNCHANGED <<world, reqNo, awaiting, sessions, net, faults, cache, result,
                   issued, resolved>>

(***************************************************************************)
(* get_token_conversion_rate, lines 241-269: the resolver coroutines run   *)
(* one after the other, each when it is awaited.                           *)
(***************************************************************************)
\* the token a step of the tail is about
TokenAt(step) ==
    IF step \in {"token0_decimals", "token0_symbol"} THEN frame.token0 ELSE frame.token1

\* the frame and the next step once decimals d are known (lines 242-246)
with_decimals(f, step, d) ==
    IF step = "token0_decimals"
    THEN [f EXCEPT !.token0_decimals = d]
    ELSE [f EXCEPT !.token1_decimals = d,
                   !.total_ratio = scale(f.total_ratio, f.token0_decimals, d)]

AfterDecimals(step) == IF step = "token0_decimals" THEN "token1_decimals" ELSE "token0_symbol"

\* get_token_decimals (calculation.py), lines 31-34: the cache is read; a
\* hit is written back and returned (lines 38-40), a miss calls the node
get_token_decimals_begin ==
    /\ pc \in {"token0_decimals", "token1_decimals"}
    /\ ~awaiting
    /\ LET t == TokenAt(pc)
           decimals == get_cached_token_decimals(cache, t)
       IN  IF decimals.hit
           THEN /\ cache' = set_token_decimals(cache, t, decimals.val)
                /\ frame' = with_decimals([frame EXCEPT !.lookups = @ + 1], pc, decimals.val)
                /\ pc' = AfterDecimals(pc)
                /\ resolved' = AppendAt(resolved, DecimalsKey(t),
                                        [val |-> decimals.val, hit |-> TRUE])
                /\ UNCHANGED <<awaiting, net, issued>>
           ELSE /\ net' = Put(net, DecimalsCall(t), NewCall)
                /\ issued' = Bump(issued, DecimalsCall(t))
                /\ awaiting' = TRUE
                /\ frame' = [frame EXCEPT !.lookups = @ + 1]
                /\ UNCHANGED <<cache, pc, resolved>>
    /\ UNCHANGED <<world, reqNo, sessions, faults, result, error>>

\* lines 34-40 after the node's answer: cache it and return it
get_token_decimals_end ==
    /\ pc \in {"token0_decimals", "token1_decimals"}
    /\ awaiting
    /\ LET t == TokenAt(pc)
       IN  /\ net[DecimalsCall(t)].st = "returned"
           /\ cache' = set_token_decimals(cache, t, net[DecimalsCall(t)].val)
           /\ frame' = with_decimals(frame, pc, net[DecimalsCall(t)].val)
           /\ resolved' = AppendAt(resolved, DecimalsKey(t),
                                   [val |-> net[DecimalsCall(t)].val, hit |-> FALSE])
    /\ pc' = AfterDecimals(pc)
    /\ awaiting' = FALSE
    /\ UNCHANGED <<world, reqNo, sessions, net, faults, result, error, issued>>

\* the frame, the result and the next step once a symbol is known (lines
\* 258-265)
with_symbol(f, step, symbol) ==
    IF step = "token0_symbol"
    THEN [f EXCEPT !.raw_symbol0 = symbol, !.token0_symbol = parse_symbol(symbol)]
    ELSE [f EXCEPT !.raw_symbol1 = symbol]

result_with(f, step, symbol) ==
    IF step = "token0_symbol" THEN NoResult
    ELSE [conversion_rate |-> f.total_ratio,
          token0_decimals |-> f.token0_decimals,
          token1_decimals |-> f.token1_decimals,
          token0_symbol |-> f.token0_symbol,
          token1_symbol |-> parse_symbol(symbol),
          token_pair_path |-> f.path]

AfterSymbol(step) == IF step = "token0_symbol" THEN "token1_symbol" ELSE "session_close"

\* get_token_symbol (calculation.py), lines 53-56
get_token_symbol_begin ==
    /\ pc \in {"token0_symbol", "token1_symbol"}
    /\ ~awaiting
    /\ LET t == TokenAt(pc)
           symbol == get_cached_token_symbol(cache, t)
       IN  IF symbol.hit
           THEN /\ cache' = set_token_symbol(cache, t, symbol.val)
                /\ frame' = with_symbol([frame EXCEPT !.lookups = @ + 1], pc, symbol.val)
                /\ result' = result_with(frame, pc, symbol.val)
                /\ pc' = AfterSymbol(pc)
                /\ resolved' = AppendAt(resolved, SymbolKey(t),
                                        [val |-> symbol.val, hit |-> TRUE])
                /\ UNCHANGED <<awaiting, net, issued>>
           ELSE /\ net' = Put(net, SymbolCall(t), NewCall)
                /\ issued' = Bump(issued, SymbolCall(t))
                /\ awaiting' = TRUE
                /\ frame' = [frame EXCEPT !.lookups = @ + 1]
                /\ UNCHANGED <<cache, pc, resolved, result>>
    /\ UNCHANGED <<world, reqNo, sessions, faults, error>>

\* lines 56-62 after the node's answer
get_token_symbol_end ==
    /\ pc \in {"token0_symbol", "token1_symbol"}
    /\ awaiting
    /\ LET t == TokenAt(pc)
       IN  /\ net[SymbolCall(t)].st = "returned"
           /\ cache' = set_token_symbol(cache, t, net[SymbolCall(t)].val)
           /\ frame' = with_symbol(frame, pc, net[SymbolCall(t)].val)
           /\ result' = result_with(frame, pc, net[SymbolCall(t)].val)
           /\ resolved' = AppendAt(resolved, SymbolKey(t),
                                   [val |-> net[SymbolCall(t)].val, hit |-> FALSE])
    /\ pc' = AfterSymbol(pc)
    /\ awaiting' = FALSE
    /\ UNCHANGED <<world, reqNo, sessions, net, faults, error, issued>>

\* lines 267-269: close the session and return the result
session_close ==
    /\ pc = "session_close"
    /\ sessions' = sessions \ {reqNo}
    /\ pc' = "done"
    /\ UNCHANGED <<world, reqNo, awaiting, frame, net, faults, cache, result,
                   error, issued, resolved>>

(***************************************************************************)
(* The specification.                                                      *)
(***************************************************************************)
PoolAddresses == {Pool1, Pool1Up, Pool2, Pool3, Pool4}
TokenKeys == {TokA, TokB, TokC}

Next ==
    \/ Start
    \/ \E c \in DOMAIN net : Wake(c)
    \/ \E k \in Responses : get_raw_swap_logs(k)
    \/ \E p \in PoolAddresses, token \in {0, 1}, k \in Responses :
          get_single_pool_token_async(p, token, k)
    \/ \E t \in TokenKeys, k \in Responses : fetch_token_decimals(t, k)
    \/ \E t \in TokenKeys, k \in Responses : fetch_token_symbol(t, k)
    \/ get_swaps_gather
    \/ get_swaps_raises
    \/ \E p \in PoolAddresses : get_pool_tokens(p)
    \/ get_swaps_parse
    \/ get_token_decimals_begin
    \/ get_token_decimals_end
    \/ get_token_symbol_begin
    \/ get_token_symbol_end
    \/ session_close

Spec == Init /\ [][Next]_vars

(***************************************************************************)
(* Properties.                                                             *)
(***************************************************************************)
\* the request has a path and its ratio (the frame keeps them until the
\* next request starts)
HasPath == frame.got_swaps /\ error = "" /\ pc # "failed"

HopSwap(i) == frame.swaps[frame.hops[i]]
HopForward(i) ==
    HopSwap(i).from_token = frame.path[i] /\ HopSwap(i).to_token = frame.path[i + 1]
HopBackward(i) ==
    HopSwap(i).from_token = frame.path[i + 1] /\ HopSwap(i).to_token = frame.path[i]

RECURSIVE GainProduct(_)
\* the product, over the first i hops, of the amount on the side the hop arrives at
GainProduct(i) ==
    IF i = 0 THEN 1
    ELSE GainProduct(i - 1)
         * (IF HopForward(i) THEN HopSwap(i).to_amount ELSE HopSwap(i).from_amount)

RECURSIVE CostProduct(_)
\* the product, over the first i hops, of the amount on the side the hop leaves
CostProduct(i) ==
    IF i = 0 THEN 1
    ELSE CostProduct(i - 1)
         * (IF HopForward(i) THEN HopSwap(i).from_amount ELSE HopSwap(i).to_amount)

\* C1: the aggregated ratio of the chosen path is the product, hop by hop,
\* of s.ratio for a swap recorded in the direction of the hop and of
\* 1/s.ratio for a swap recorded against it; the path A->B->C over
\* (from=A,to=B,ratio=2.0) and (from=C,to=B,ratio=0.5) aggregates to 4.0
C1_DirectionAwareRatio ==
    HasPath =>
        /\ \A i \in 1..(Len(frame.path) - 1) : HopForward(i) \/ HopBackward(i)
        /\ frame.raw_ratio =
              Rat(GainProduct(Len(frame.path) - 1), CostProduct(Len(frame.path) - 1), 0)
        /\ ( /\ frame.path = <<TokA, TokB, TokC>>
             /\ HopForward(1) /\ ratio(HopSwap(1)) = RatInt(2)
             /\ HopBackward(2) /\ ratio(HopSwap(2)) = Rat(1, 2, 0) )
           => frame.raw_ratio = RatInt(4)

C1_Witness ==
    /\ HasPath
    /\ frame.path = <<TokA, TokB, TokC>>
    /\ HopForward(1) /\ ratio(HopSwap(1)) = RatInt(2)
    /\ HopBackward(2) /\ ratio(HopSwap(2)) = Rat(1, 2, 0)
    /\ frame.raw_ratio = RatInt(4)

\* the window holds exactly one swap of pool 1 (token0 = A, token1 = B) with
\* |amount0| = 1000 and |amount1| = 2000, and the request is A to B
OneSwapScenario ==
    /\ Len(chainLogs) = 1
    /\ Lower(chainLogs[1].address) = Pool1
    /\ Abs(chainLogs[1].amount0) = 1000
    /\ Abs(chainLogs[1].amount1) = 2000
    /\ Lower(token0In) = TokA
    /\ Lower(token1In) = TokB
    /\ ChainDecimals(TokA) = 18
    /\ ChainDecimals(TokB) = 18

\* C2: with one swap of pool P (token0 = A, token1 = B, |amount0| = 1000,
\* |amount1| = 2000) in the window and 18 decimals for both tokens,
\* convert(A, B) returns conversion_rate 2.0 and path [A, B], and it does
\* not fail once the logs of the window have been fetched
C2_EndToEnd ==
    /\ (OneSwapScenario /\ pc \in {"session_close", "done"}) =>
          /\ result.conversion_rate = RatInt(2)
          /\ result.token_pair_path = <<TokA, TokB>>
          /\ result.token0_decimals = 18
          /\ result.token1_decimals = 18
    /\ (OneSwapScenario /\ frame.got_swaps) => pc # "failed"

C2_Witness ==
    /\ OneSwapScenario
    /\ pc = "done"
    /\ result.conversion_rate = RatInt(2)
    /\ result.token_pair_path = <<TokA, TokB>>

\* the chain calls issued so far for the address of a cache key
CallsFor(key) ==
    IF key[1] = "pool"
    THEN Count(issued, Token0Call(key[2])) + Count(issued, Token1Call(key[2]))
    ELSE Count(issued, <<key[1], key[2]>>)

\* C3 as stated: an address resolved twice, the first time with no cache
\* entry, has had exactly one chain call in total, and the second resolution
\* was served from the cache with the value of the first
C3_OneChainCall ==
    \A key \in DOMAIN resolved :
        (Len(resolved[key]) >= 2 /\ ~resolved[key][1].hit) =>
            /\ CallsFor(key) = 1
            /\ resolved[key][2].hit
            /\ resolved[key][2].val = resolved[key][1].val

\* C3 as amended: the first resolution of a token's decimals or symbol
\* issues one chain call and that of a pool two (token0 and token1), every
\* later resolution issues none, is served from the cache and returns the
\* value of the first
C3_CallsOnFirstResolutionOnly ==
    \A key \in DOMAIN resolved :
        (Len(resolved[key]) >= 2 /\ ~resolved[key][1].hit) =>
            /\ IF key[1] = "pool"
               THEN /\ Count(issued, Token0Call(key[2])) = 1
                    /\ Count(issued, Token1Call(key[2])) = 1
               ELSE CallsFor(key) = 1
            /\ \A i \in 2..Len(resolved[key]) :
                  /\ resolved[key][i].hit
                  /\ resolved[key][i].val = resolved[key][1].val

C3_Witness ==
    /\ \E p \in PoolAddresses :
          /\ PoolKey(p) \in DOMAIN resolved
          /\ Len(resolved[PoolKey(p)]) = 2
          /\ resolved[PoolKey(p)][2].hit
          /\ CallsFor(PoolKey(p)) = 2
    /\ \E t \in TokenKeys :
          /\ DecimalsKey(t) \in DOMAIN resolved
          /\ Len(resolved[DecimalsKey(t)]) >= 2
          /\ CallsFor(DecimalsKey(t)) = 1

\* the tokens of the pools that swapped in the window, from the chain itself
WindowPairs == {ChainPoolTokens(chainLogs[i].address) : i \in 1..Len(chainLogs)}
WindowTokens == {pr[1] : pr \in WindowPairs} \cup {pr[2] : pr \in WindowPairs}
MissingInWindow(t) == Lower(t) \notin WindowTokens

\* C4: when the source or the target token appears in no swap record of the
\* window, convert never returns a result, and once get_swaps has returned
\* it has failed with the missing-token error
C4_MissingTokenFails ==
    (MissingInWindow(token0In) \/ MissingInWindow(token1In)) =>
        /\ pc \notin {"token0_decimals", "token1_decimals", "token0_symbol",
                      "token1_symbol", "session_close", "done"}
        /\ frame.got_swaps =>
              /\ pc = "failed"
              /\ error = (IF MissingInWindow(token0In)
                          THEN "Token0NotFound" ELSE "Token1NotFound")

C4_Witness ==
    /\ ~MissingInWindow(token0In)
    /\ MissingInWindow(token1In)
    /\ frame.got_swaps
    /\ pc = "failed"
    /\ error = "Token1NotFound"

RECURSIVE Component(_)
\* the tokens joined to a token of S by swaps of the window
Component(S) ==
    LET T == S \cup {pr[2] : pr \in {q \in WindowPairs : q[1] \in S}}
                \cup {pr[1] : pr \in {q \in WindowPairs : q[2] \in S}}
    IN  IF T = S THEN S ELSE Component(T)

Disconnected ==
    /\ ~MissingInWindow(token0In)
    /\ ~MissingInWindow(token1In)
    /\ Lower(token1In) \notin Component({Lower(token0In)})

\* C5: when both tokens are nodes of the swap graph but lie in disjoint
\* connected components, convert never returns a result, and once get_swaps
\* has returned it has failed with the no-path error
C5_DisconnectedFails ==
    Disconnected =>
        /\ pc \notin {"token0_decimals", "token1_decimals", "token0_symbol",
                      "token1_symbol", "session_close", "done"}
        /\ frame.got_swaps => (pc = "failed" /\ error = "NoPath")

C5_Witness ==
    /\ Disconnected
    /\ frame.got_swaps
    /\ pc = "failed"
    /\ error = "NoPath"

\* C6: the from_amount and to_amount of every swap record are the absolute
\* values of the two signed words of its log's data field, so neither is
\* negative; amount0 = -1000 and amount1 = 500 parse to 1000 and 500
C6_AmountsAreMagnitudes ==
    frame.got_swaps =>
        /\ Len(frame.swaps) = Len(chainLogs)
        /\ \A i \in 1..Len(frame.swaps) :
              /\ frame.swaps[i].from_amount = Abs(chainLogs[i].amount0)
              /\ frame.swaps[i].to_amount = Abs(chainLogs[i].amount1)
              /\ frame.swaps[i].from_amount >= 0
              /\ frame.swaps[i].to_amount >= 0

C6_Witness ==
    /\ frame.got_swaps
    /\ \E i \in 1..Len(frame.swaps) :
          /\ chainLogs[i].amount0 = 0 - 1000
          /\ chainLogs[i].amount1 = 500
          /\ frame.swaps[i].from_amount = 1000
          /\ frame.swaps[i].to_amount = 500

\* the characters parse_symbol is to remove: 0x00-0x09 and the space
Stripped == {"x00", "x01", "x02", "x03", "x04", "x05", "x06", "x07", "x08", "x09", " "}
Kept(c) == c \notin Stripped
\* symbols to try parse_symbol on, beside those of the token contracts
MaxSymbolLen == 3
SymbolInputs == SeqsUpTo({"x00", "x09", "x0a", " ", "S"}, MaxSymbolLen)

\* C7: the symbols convert returns are the decoded symbols with every
\* character 0x00-0x09 and every space removed and the other characters
\* kept in order; "US\x00DC " becomes "USDC"
C7_SymbolSanitized ==
    pc = "done" =>
        /\ result.token0_symbol = SelectSeq(frame.raw_symbol0, Kept)
        /\ result.token1_symbol = SelectSeq(frame.raw_symbol1, Kept)
        /\ frame.raw_symbol0 = <<"U", "S", "x00", "D", "C", " ">>
              => result.token0_symbol = <<"U", "S", "D", "C">>
        /\ \A s \in SymbolInputs : parse_symbol(s) = SelectSeq(s, Kept)

C7_Witness ==
    /\ pc = "done"
    /\ frame.raw_symbol0 = <<"U", "S", "x00", "D", "C", " ">>
    /\ result.token0_symbol = <<"U", "S", "D", "C">>
    /\ frame.raw_symbol1 = <<"x09", "E", "x0a", "T", "H">>
    /\ result.token1_symbol = <<"E", "x0a", "T", "H">>

\* raw ratios and decimals to try the scaling on, beside those of the runs
RatioInputs == {Rat(a, b, 0) : a \in {0, 1, 3, 500, 2000}, b \in {1, 3, 1000}}
DecimalsInputs == {0, 6, 18, 255}

\* r * 10^d0 / 10^d1, from the value of r
Scaled(r, d0, d1) == Rat(r.n, r.d, r.e + d0 - d1)

C9_FatalStatusEndsCall ==
    \A c \in DOMAIN net : net[c].fatal => net[c].st = "raised"

\* C10: no chain call, eth_getLogs included, raises to its caller because of
\* a transport exception, a malformed response body or an HTTP 429
C10_TransientNeverRaised ==
    \A c \in DOMAIN net :
        net[c].st = "raised" => net[c].resp \notin {"neterr", "malformed", "s429"}


\* the eth_calls of the metadata resolvers
ResolverCalls == {c \in DOMAIN net : c[1] \in {"token0", "token1", "decimals", "symbol"}}

\* C11: when an eth_call of a resolver is answered with a result that does
\* not decode, the call ends with an error (which the resolver turns into
\* ContractNotFoundException): it is not waited on and posted again, and a
\* request that fails after it fails with ContractNotFoundException
C11_UndecodableResultEndsResolution ==
    \A c \in ResolverCalls :
        net[c].resp = "malformed" =>
            /\ net[c].st = "raised"
            /\ pc = "failed" => error = "ContractNotFoundException"

\* the Python class of the exception each raise site of convert raises:
\* lines 213, 216 and 228 raise Exception, bytes.fromhex raises ValueError,
\* SwapEvent.ratio and line 239 ZeroDivisionError, session.post a ClientError
exception_type(err) ==
    IF err \in {"Token0NotFound", "Token1NotFound", "NoPath"} THEN "Exception" ELSE err

\* the failure each raise site stands for
failure_kind(err) ==
    CASE err \in {"Token0NotFound", "Token1NotFound"} -> "missing-token"
      [] err = "NoPath" -> "no-path"
      [] err = "ValueError" -> "malformed-log"
      [] OTHER -> err

RaiseSites ==
    {"Token0NotFound", "Token1NotFound", "NoPath", "ValueError", "ZeroDivisionError",
     "ClientError"}

\* C12: the type of the exception a failed convert raises tells the kind of
\* the failure: no raise site of another kind raises the same type
C12_FailureKindsHaveOwnTypes ==
    pc = "failed" =>
        \A e \in RaiseSites :
            exception_type(e) = exception_type(error) => failure_kind(e) = failure_kind(error)


\* the logs get_raw_swap_logs returned to get_swaps in this request
FetchedLogs == IF LogsCall \in DOMAIN net /\ net[LogsCall].st = "returned"
               THEN net[LogsCall].val ELSE << >>

\* C13: get_swaps is all or nothing: when it returns, it returns one swap
\* record per fetched log, in the order of the logs, each with the pool, the
\* tokens and the amounts of its log; when a field of any log does not
\* parse it returns no record at all and the request fails
C13_AllOrNothing ==
    /\ frame.got_swaps =>
          /\ Len(frame.swaps) = Len(FetchedLogs)
          /\ Len(FetchedLogs) = Len(chainLogs)
          /\ \A i \in 1..Len(frame.swaps) :
                /\ frame.swaps[i].address = Lower(FetchedLogs[i].address)
                /\ frame.swaps[i].from_token = ChainPoolTokens(chainLogs[i].address)[1]
                /\ frame.swaps[i].to_token = ChainPoolTokens(chainLogs[i].address)[2]
                /\ frame.swaps[i].from_amount = Abs(chainLogs[i].amount0)
                /\ frame.swaps[i].to_amount = Abs(chainLogs[i].amount1)
    /\ ~frame.got_swaps => frame.swaps = << >>
    /\ (\E i \in 1..Len(chainLogs) : chainLogs[i].garbled) =>
          /\ ~frame.got_swaps
          /\ pc \in {"idle", "get_raw_swap_logs", "get_pool_tokens", "failed"}
          /\ (pc = "failed" /\ error # "ClientError") => error = "ValueError"

C13_Witness ==
    /\ frame.got_swaps
    /\ Len(frame.swaps) = 2
    /\ frame.swaps[1].address = Pool2
    /\ frame.swaps[1].to_amount = 0
    /\ frame.swaps[2].address = Pool1
    /\ chainLogs[1].address = Pool2
    /\ chainLogs[2].address = Pool1Up

\* the other case of C13: a log that does not parse fails the whole request
C13_FailureReached ==
    /\ pc = "failed"
    /\ error = "ValueError"
    /\ Len(chainLogs) = 2
    /\ ~chainLogs[1].garbled
    /\ chainLogs[2].garbled
    /\ frame.swaps = << >>

\* C14: the decimals and symbol resolutions run concurrently with event
\* ingestion: while get_swaps is resolving the pools of the fetched logs, the
\* request has already made a decimals or symbol cache lookup
C14_MetadataInFlightDuringIngestion ==
    pc = "get_pool_tokens" => frame.lookups > 0

\* C14, what the code does instead: no decimals or symbol cache lookup or
\* chain call is made before get_swaps has returned and a path is chosen
C14_MetadataOnlyAfterIngestion ==
    /\ frame.lookups > 0 => (frame.got_swaps /\ HasPath)
    /\ \A c \in DOMAIN net : c[1] \in {"decimals", "symbol"} => frame.got_swaps
    /\ pc \in {"get_raw_swap_logs", "get_pool_tokens"} => frame.lookups = 0


\* a swap of the window joins tokens u and v, by the chain's own pool pairs
WindowJoined(u, v) == <<u, v>> \in WindowPairs \/ <<v, u>> \in WindowPairs

RECURSIVE WithinHops(_, _)
\* the tokens at most k hops away from a token of S in the window
WithinHops(S, k) ==
    IF k = 0 THEN S
    ELSE WithinHops(S \cup {t \in WindowTokens : \E u \in S : WindowJoined(u, t)}, k - 1)

\* swap lists with a detour: a triangle A-B, C-B, A-C and a square A-B, C-B,
\* C-D, D-A
Edge(a, b) ==
    [address |-> Pool1, from_token |-> a, to_token |-> b, from_amount |-> 1, to_amount |-> 1]
Triangle == <<Edge(TokA, TokB), Edge(TokC, TokB), Edge(TokA, TokC)>>
Square == <<Edge(TokA, TokB), Edge(TokC, TokB), Edge(TokC, TokD), Edge(TokD, TokA)>>

\* C15: the path of a returned result starts at the lower-cased source
\* token, ends at the target token, joins consecutive tokens by a swap of the
\* window, and no path with fewer hops exists between the two tokens
C15_PathIsAShortestPath ==
    /\ pc \in {"session_close", "done"} =>
          LET p == result.token_pair_path
              hops == Len(p) - 1
          IN  /\ hops >= 0
              /\ p[1] = Lower(token0In)
              /\ p[Len(p)] = Lower(token1In)
              /\ \A i \in 1..hops : WindowJoined(p[i], p[i + 1])
              /\ \A k \in 0..(hops - 1) :
                    Lower(token1In) \notin WithinHops({Lower(token0In)}, k)
    /\ pc = "idle" =>
          /\ graph_all_shortest_paths(Triangle, TokA, TokC) = {<<TokA, TokC>>}
          /\ graph_all_shortest_paths(Triangle, TokB, TokA) = {<<TokB, TokA>>}
          /\ graph_all_shortest_paths(Square, TokA, TokC)
                = {<<TokA, TokB, TokC>>, <<TokA, TokD, TokC>>}
          /\ graph_all_shortest_paths(Square, TokB, TokD)
                = {<<TokB, TokA, TokD>>, <<TokB, TokC, TokD>>}

C15_Witness ==
    /\ pc = "done"
    /\ token0In = TokAUp
    /\ result.token_pair_path = <<TokA, TokB, TokC>>
    /\ ~WindowJoined(TokA, TokC)


\* C16: the swap graph has one node per token address of the swap records
\* and one edge per record, in the order of the records, each joining its
\* record's two tokens and carrying that record; parallel edges are kept
C16_GraphMatchesRecords ==
    frame.got_swaps =>
        /\ frame.graph.nodes = WindowTokens
        /\ frame.graph.nodes = TokenAddresses(frame.swaps)
        /\ Len(frame.graph.edges) = Len(chainLogs)
        /\ \A i \in 1..Len(frame.graph.edges) :
              /\ frame.graph.edges[i].a = ChainPoolTokens(chainLogs[i].address)[1]
              /\ frame.graph.edges[i].b = ChainPoolTokens(chainLogs[i].address)[2]
              /\ frame.graph.edges[i].data = frame.swaps[i]
        /\ \A u \in WindowTokens, v \in WindowTokens :
              Cardinality(EdgesBetween(frame.swaps, u, v))
                 = Cardinality({i \in 1..Len(chainLogs) :
                                  \/ ChainPoolTokens(chainLogs[i].address) = <<u, v>>
                                  \/ ChainPoolTokens(chainLogs[i].address) = <<v, u>>})

C16_Witness ==
    /\ frame.got_swaps
    /\ Cardinality(frame.graph.nodes) = 2
    /\ Len(frame.graph.edges) = 2
    /\ frame.graph.edges[1].a = TokA /\ frame.graph.edges[1].b = TokB
    /\ frame.graph.edges[2].a = TokA /\ frame.graph.edges[2].b = TokB
    /\ frame.graph.edges[1].data # frame.graph.edges[2].data
    /\ frame.graph.edges[1].data.address = frame.graph.edges[2].data.address

IsLower(s) == Lower(s) = s

\* C17: every address the engine stores is lower-case: the keys and the
\* token addresses of the cache, the keys of the pool-to-tokens map of the
\* ingestion, and the address and tokens of every swap record
C17_AddressesLowerCase ==
    /\ \A k \in DOMAIN cache.pool :
          /\ IsLower(k)
          /\ \A i \in 1..Len(Split(cache.pool[k], ",")) : IsLower(Split(cache.pool[k], ",")[i])
    /\ \A k \in DOMAIN cache.decimals : IsLower(k)
    /\ \A k \in DOMAIN cache.symbol : IsLower(k)
    /\ \A k \in DOMAIN frame.pool_tokens : IsLower(k)
    /\ \A i \in 1..Len(frame.swaps) :
          /\ IsLower(frame.swaps[i].address)
          /\ IsLower(frame.swaps[i].from_token)
          /\ IsLower(frame.swaps[i].to_token)

\* C17, what the code does: all of these are lower-case but the pool keys of
\* the cache and of the pool-to-tokens map, which are the addresses as the
\* logs spell them
C17_AllButPoolKeysLowerCase ==
    /\ \A k \in DOMAIN cache.pool :
          /\ \E i \in 1..Len(chainLogs) : k = chainLogs[i].address
          /\ \A i \in 1..Len(Split(cache.pool[k], ",")) : IsLower(Split(cache.pool[k], ",")[i])
    /\ \A k \in DOMAIN cache.decimals : IsLower(k)
    /\ \A k \in DOMAIN cache.symbol : IsLower(k)
    /\ \A k \in DOMAIN frame.pool_tokens : \E i \in 1..Len(chainLogs) : k = chainLogs[i].address
    /\ \A i \in 1..Len(frame.swaps) :
          /\ IsLower(frame.swaps[i].address)
          /\ IsLower(frame.swaps[i].from_token)
          /\ IsLower(frame.swaps[i].to_token)

\* the resolutions of a key that missed the cache
Misses(key) == {i \in 1..Len(resolved[key]) : ~resolved[key][i].hit}

\* C18: a cache entry is written by the resolution that misses the cache
\* and by no other: the SET commands a key has had are as many as the
\* resolutions of it that missed
C18_WrittenOnMissOnly ==
    \A key \in DOMAIN resolved : Count(cache.writes, key) = Cardinality(Misses(key))

\* C18, what the code does: every resolution, hit or miss, ends with a SET
C18_EveryResolutionWrites ==
    /\ \A key \in DOMAIN resolved : Count(cache.writes, key) = Len(resolved[key])
    /\ \A key \in DOMAIN cache.writes : key \in DOMAIN resolved

\* C19: between two attempts of a chain call lies exactly one sleep of one
\* second: a call posted n times has slept n - 1 times
C19_OneSleepBetweenAttempts ==
    \A c \in DOMAIN net :
        net[c].st \in {"inflight", "returned", "raised"} => net[c].sleeps = net[c].posts - 1

\* C19, what the code does: one sleep for every call but the token0/token1
\* call of a pool, which sleeps twice after a 429
C19_OneSleepButForPoolCalls ==
    \A c \in DOMAIN net :
        (net[c].st \in {"inflight", "returned", "raised"} /\ c[1] \notin {"token0", "token1"})
            => net[c].sleeps = net[c].posts - 1


\* the token0/token1 calls of the pool-resolution tasks of the ingestion
PoolCalls == {c \in DOMAIN net : c[1] \in {"token0", "token1"}}
TokenOf(c) == IF c[1] = "token0" THEN 0 ELSE 1

\* C20: a retrying task blocks only itself: while a token0/token1 call of
\* one pool-resolution task waits in its backoff, every other such call
\* that is posted can receive its response, every task whose two calls have
\* returned can complete, and the waiting call's own sleep can end
C20_RetryBlocksOnlyItself ==
    \A c \in PoolCalls :
        net[c].st = "sleeping" =>
            /\ \A d \in PoolCalls \ {c} :
                  net[d].st = "inflight" =>
                      ENABLED get_single_pool_token_async(d[2], TokenOf(d), "ok")
            /\ \A p \in frame.pool_addresses \ DOMAIN frame.pool_tokens :
                  (net[Token0Call(p)].st = "returned" /\ net[Token1Call(p)].st = "returned")
                      => ENABLED get_pool_tokens(p)
            /\ ENABLED Wake(c)

C20_Witness ==
    \E p \in frame.pool_addresses, q \in frame.pool_addresses :
        /\ p # q
        /\ pc = "get_pool_tokens"
        /\ net[Token0Call(p)].st = "sleeping"
        /\ net[Token0Call(p)].resp = "s429"
        /\ net[Token0Call(p)].left = 1
        /\ net[Token1Call(p)].st = "inflight"
        /\ q \in DOMAIN frame.pool_tokens
        /\ net[Token0Call(q)].st = "returned"
        /\ net[Token1Call(q)].st = "returned"

(***************************************************************************)
(* The session of a finished request.                                      *)
(***************************************************************************)
Finished == pc \in {"done", "failed"}

\* C27: every convert call that finishes, with a result or with any error,
\* has closed the HTTP client session it opened: no finished request leaves
\* its session open
C27_FinishedRequestClosedItsSession ==
    Finished => reqNo \notin sessions

\* what the code does: line 267 is reached by a request that returns only
C27_ReturnedRequestClosedItsSession ==
    pc = "done" => reqNo \notin sessions

C27_FailedRequestKeepsItsSession ==
    pc = "failed" => reqNo \in sessions

(***************************************************************************)
(* The block window of the log fetch.                                      *)
(***************************************************************************)
\* a block number as JSON-RPC takes it: "0x" and at least one hex digit
IsBlockQuantity(s) ==
    /\ Len(s) >= 3
    /\ s[1] = "0" /\ s[2] = "x"
    /\ \A i \in 3..Len(s) : IsHexChar(s[i])

BlockOf(s) == HexToInt(SubSeq(s, 3, Len(s)))

\* the window [b - 100, b + 100] reaches the node as two block numbers
WindowIssued(b, fromBlock, toBlock) ==
    /\ IsBlockQuantity(fromBlock)
    /\ IsBlockQuantity(toBlock)
    /\ BlockOf(fromBlock) = b - 100
    /\ BlockOf(toBlock) = b + 100

\* the block heights of the checks on hex() alone
MaxBlock == 300

\* C22: for every blockNumber, convert fetches the logs of the inclusive
\* range [blockNumber - 100, blockNumber + 100] with one eth_getLogs call
\* whose fromBlock and toBlock are hex(blockNumber - 100) and
\* hex(blockNumber + 100), both valid non-negative block numbers
C22_WindowIsValidBlockRange ==
    pc # "idle" =>
        /\ LogsCall \in DOMAIN net
        /\ Count(issued, LogsCall) = reqNo
        /\ WindowIssued(block_number, frame.fromBlock, frame.toBlock)

\* what the code does: the range is right from block height 100 on ...
C22_WindowFromHeight100 ==
    /\ (pc # "idle" /\ block_number >= 100) =>
          /\ LogsCall \in DOMAIN net
          /\ Count(issued, LogsCall) = reqNo
          /\ WindowIssued(block_number, frame.fromBlock, frame.toBlock)
    /\ pc = "idle" =>
          \A b \in 100..MaxBlock : WindowIssued(b, hex(from_block(b)), hex(to_block(b)))

\* ... and below it fromBlock is the text of a negative number
C22_NegativeFromBlock ==
    /\ (pc # "idle" /\ block_number < 100) =>
          /\ frame.fromBlock = <<"-", "0", "x">> \o HexDigitsOf(100 - block_number)
          /\ ~IsBlockQuantity(frame.fromBlock)
          /\ IsBlockQuantity(frame.toBlock)
          /\ BlockOf(frame.toBlock) = block_number + 100
    /\ pc = "idle" =>
          \A b \in 0..99 : ~IsBlockQuantity(hex(from_block(b)))

C22_WindowReached ==
    /\ pc = "get_pool_tokens"
    /\ block_number >= 100
    /\ frame.fromBlock = <<"0", "x", "0">>
    /\ frame.toBlock = <<"0", "x", "c", "8">>
    /\ Len(frame.logs) = MaxLogs

(***************************************************************************)
(* One resolution per pool address and ingestion.                          *)
(***************************************************************************)
\* the pool addresses of the window, as the logs spell them
WindowAddresses == {RawLog(chainLogs[i]).address : i \in 1..Len(chainLogs)}

\* get_swaps has the logs and has started the resolution of their pools
Ingesting == pc \notin {"idle", "get_raw_swap_logs"} /\ FetchedLogs # << >>

\* asyncio.gather of line 126 has returned
PoolsResolved == Ingesting /\ (pc # "get_pool_tokens" \/ DOMAIN frame.pool_tokens = frame.pool_addresses)

InChainOrder(p, tokens) ==
    /\ Len(tokens) = 2
    /\ Lower(tokens[1]) = ChainPoolTokens(p)[1]
    /\ Lower(tokens[2]) = ChainPoolTokens(p)[2]

\* C24: the pair resolved for a pool is (token0, token1) in the pool
\* contract's own order, whichever of the token0 and token1 calls completed
\* or retried first; so every swap record has from_token = token0 with
\* from_amount = |amount0| and to_token = token1 with to_amount = |amount1|
C24_PairInContractOrder ==
    /\ \A p \in DOMAIN frame.pool_tokens : InChainOrder(p, frame.pool_tokens[p])
    /\ \A p \in PoolAddresses :
          PoolKey(p) \in DOMAIN resolved =>
              \A i \in 1..Len(resolved[PoolKey(p)]) :
                  InChainOrder(p, resolved[PoolKey(p)][i].val)
    /\ \A i \in 1..Len(frame.swaps) :
          LET ev == chainLogs[i]
          IN  /\ <<frame.swaps[i].from_token, frame.swaps[i].from_amount>>
                    = <<ChainPoolTokens(ev.address)[1], Abs(ev.amount0)>>
              /\ <<frame.swaps[i].to_token, frame.swaps[i].to_amount>>
                    = <<ChainPoolTokens(ev.address)[2], Abs(ev.amount1)>>

\* the token0 call of a pool was retried and its token1 call was not, and
\* the records of the pool are built
C24_Witness ==
    \E p \in DOMAIN frame.pool_tokens :
        /\ frame.got_swaps
        /\ Token0Call(p) \in DOMAIN net
        /\ net[Token0Call(p)].posts = 2
        /\ net[Token1Call(p)].posts = 1
        /\ \E i \in 1..Len(frame.swaps) :
              /\ frame.logs[i].address = p
              /\ frame.swaps[i].from_amount # frame.swaps[i].to_amount

\* the token1 call has completed while the token0 call waits to retry
C24_Token1CompletesFirst ==
    \E p \in frame.pool_addresses :
        /\ pc = "get_pool_tokens"
        /\ Token0Call(p) \in DOMAIN net
        /\ net[Token0Call(p)].st = "sleeping"
        /\ net[Token1Call(p)].st = "returned"

(***************************************************************************)
(* The cache: what is read is what was written.                            *)
(***************************************************************************)
\* the hex addresses of the round trips
HexAddresses == {TokA, TokAUp, TokB, TokC, TokD, Pool1}

\* the caches the round trips start from: the empty one and the one of the
\* state
CachesNow == {EmptyCache, cache}

Hit(v) == [hit |-> TRUE, val |-> v]

\* the lookup r is a hit, and of value v
Returns(r, v) == r.hit /\ r.val = v

\* C25: cache round trip: get_pool_pair(p) after set_pool_pair(p, (a, b))
\* returns exactly (a, b) for hex addresses a, b; get_token_decimals(t)
\* after set_token_decimals(t, d) returns d for d in 0..255, with d = 0 a
\* hit and no miss; get_token_symbol(t) after set_token_symbol(t, s)
\* returns s
C25_CacheRoundTrip ==
    /\ pc \in {"idle", "done"} =>
          \A c \in CachesNow :
              /\ \A p \in PoolAddresses, a \in HexAddresses, b \in HexAddresses :
                    Returns(get_pool_pair(set_pool_pair(c, p, <<a, b>>), p), <<a, b>>)
              /\ \A t \in {TokA, TokD}, d \in 0..255 :
                    Returns(get_cached_token_decimals(set_token_decimals(c, t, d), t), d)
              /\ \A t \in {TokA, TokD}, s \in SymbolInputs \cup {ChainSymbol(u) : u \in TokenKeys} :
                    Returns(get_cached_token_symbol(set_token_symbol(c, t, s), t), s)
    /\ \A key \in DOMAIN resolved :
          \A i \in 1..Len(resolved[key]) :
              resolved[key][i].hit => (i > 1 /\ resolved[key][i].val = resolved[key][i - 1].val)

\* a request has read from the cache the pair, the decimals and the symbol
\* an earlier request wrote
C25_Witness ==
    /\ pc = "done"
    /\ reqNo = 2
    /\ \E p \in PoolAddresses :
          /\ PoolKey(p) \in DOMAIN resolved
          /\ Len(resolved[PoolKey(p)]) = 2
          /\ resolved[PoolKey(p)][2] = Hit(<<ChainPoolTokens(p)[1], ChainPoolTokens(p)[2]>>)
    /\ \A t \in {frame.token0, frame.token1} :
          /\ DecimalsKey(t) \in DOMAIN resolved
          /\ resolved[DecimalsKey(t)][2] = Hit(ChainDecimals(t))
          /\ SymbolKey(t) \in DOMAIN resolved
          /\ resolved[SymbolKey(t)][2] = Hit(ChainSymbol(t))

(***************************************************************************)
(* Zero amounts on the chosen path.                                        *)
(***************************************************************************)
\* the event behind the record of hop i
HopEvent(i) == chainLogs[frame.hops[i]]

\* hop i is walked from the pool's token1 to its token0
AgainstRecord(i) ==
    /\ frame.path[i] = ChainPoolTokens(HopEvent(i).address)[2]
    /\ frame.path[i + 1] = ChainPoolTokens(HopEvent(i).address)[1]

\* the rate of hop i would divide by zero
ZeroHop(i) ==
    \/ HopEvent(i).amount0 = 0
    \/ HopEvent(i).amount1 = 0 /\ AgainstRecord(i)

Returning == pc \in {"token0_decimals", "token1_decimals", "token0_symbol",
                     "token1_symbol", "session_close", "done"}

\* C26: convert returns no rate derived from a division by a zero amount:
\* when the record of any hop of the chosen path has from_amount = 0, or
\* has to_amount = 0 and is walked against its direction, convert fails
\* with an error and returns no result
C26_ZeroAmountFails ==
    /\ (frame.hops # << >> /\ \E i \in 1..Len(frame.hops) : ZeroHop(i)) =>
          /\ pc = "failed"
          /\ error = "ZeroDivisionError"
          /\ result = NoResult
    /\ Returning =>
          /\ \A i \in 1..Len(frame.hops) : ~ZeroHop(i)
          /\ frame.total_ratio.d # 0
          /\ pc = "done" => result.conversion_rate.d # 0

\* the second hop of a two-hop path walks a record with to_amount = 0
\* against its direction
C26_Witness ==
    /\ pc = "failed"
    /\ error = "ZeroDivisionError"
    /\ Len(frame.hops) = 2
    /\ HopEvent(1).amount0 # 0
    /\ HopEvent(2).amount0 # 0
    /\ HopEvent(2).amount1 = 0
    /\ AgainstRecord(2)

\* a record with from_amount = 0 fails the request in either direction
C26_ZeroFromAmountReached ==
    /\ pc = "failed"
    /\ error = "ZeroDivisionError"
    /\ Len(frame.hops) = 1
    /\ HopEvent(1).amount0 = 0
    /\ HopEvent(1).amount1 # 0
    /\ ~AgainstRecord(1)

(***************************************************************************)
(* A request that fails before its rate is computed leaves the token       *)
(* metadata alone.                                                         *)
(***************************************************************************)
\* the request failed during ingestion, with a missing token or with no path
FailedEarly ==
    /\ pc = "failed"
    /\ error \in {"ClientError", "ValueError", "Token0NotFound", "Token1NotFound", "NoPath"}

MetadataCalls == {c \in DOMAIN net : c[1] \in {"decimals", "symbol"}}

MetadataKeys == {<<ns, t>> : ns \in {"decimals", "symbol"}, t \in TokenKeys \cup {TokAUp}}

\* the decimals and symbols namespaces are as the request found them
MetadataUntouched ==
    /\ cache.decimals = frame.cache_at_start.decimals
    /\ cache.symbol = frame.cache_at_start.symbol
    /\ \A key \in MetadataKeys :
          Count(cache.writes, key) = Count(frame.cache_at_start.writes, key)

\* C28: a convert that fails during ingestion, with a missing token or with
\* no path has issued no decimals or symbol chain call and written nothing
\* to the decimals and symbols namespaces of the cache, and a decimals or
\* symbol call can fail or wait only once a path has been found
C28_EarlyFailureLeavesMetadata ==
    /\ FailedEarly =>
          /\ frame.lookups = 0
          /\ MetadataCalls = {}
          /\ MetadataUntouched
    /\ pc \in {"get_raw_swap_logs", "get_pool_tokens"} =>
          /\ MetadataCalls = {}
          /\ MetadataUntouched
    /\ MetadataCalls # {} => HasPath

\* the second request fails in the log fetch and finds the metadata the
\* first request cached as they were
C28_Witness ==
    /\ FailedEarly
    /\ reqNo = 2
    /\ DOMAIN cache.decimals # {}
    /\ DOMAIN cache.symbol # {}
    /\ frame.cache_at_start.decimals = cache.decimals

\* a request fails with a missing token, another with no path
C28_MissingTokenReached == FailedEarly /\ error = "Token1NotFound" /\ frame.got_swaps

C28_NoPathReached == FailedEarly /\ error = "NoPath" /\ Len(frame.swaps) = 2

(***************************************************************************)
(* Termination.                                                            *)
(***************************************************************************)
\* the log fetch of the request has received a well-formed HTTP 200
LogsAnswered ==
    /\ LogsCall \in DOMAIN net
    /\ net[LogsCall].st = "returned"
    /\ net[LogsCall].resp = "ok"

\* C21, first half: retries are uncapped and nothing times out, so a
\* request whose chain calls never receive a successful response never
\* completes: a request that has returned or failed has had a well-formed
\* HTTP 200 for its log fetch
C21_NoCompletionWithoutResponse ==
    Finished => LogsAnswered

\* what the code does: that holds of every request but the one whose log
\* fetch raised, and every call of a request that comes to an end otherwise
\* has returned from a well-formed 200
C21_CompletionNeedsEveryCallBut ==
    /\ (Finished /\ error # "ClientError") =>
          \A c \in DOMAIN net : net[c].st = "returned" /\ net[c].resp = "ok"
    /\ (Finished /\ error = "ClientError") =>
          /\ net[LogsCall].st = "raised"
          /\ net[LogsCall].resp \in {"neterr", "malformed"}
    /\ \A c \in DOMAIN net : net[c].st = "sleeping" => ENABLED Wake(c)

\* the request can take a step: a sleep can end, the node can answer a
\* posted call, or the guard of the coroutine's next step holds
CanStep ==
    \/ \E c \in DOMAIN net : net[c].st = "sleeping" /\ ENABLED Wake(c)
    \/ net[LogsCall].st = "inflight" /\ ENABLED get_raw_swap_logs("ok")
    \/ \E c \in PoolCalls :
          net[c].st = "inflight" /\ ENABLED get_single_pool_token_async(c[2], TokenOf(c), "ok")
    \/ \E t \in TokenKeys :
          /\ DecimalsCall(t) \in DOMAIN net
          /\ net[DecimalsCall(t)].st = "inflight"
          /\ ENABLED fetch_token_decimals(t, "ok")
    \/ \E t \in TokenKeys :
          /\ SymbolCall(t) \in DOMAIN net
          /\ net[SymbolCall(t)].st = "inflight"
          /\ ENABLED fetch_token_symbol(t, "ok")
    \/ pc = "get_raw_swap_logs" /\ net[LogsCall].st \in {"returned", "raised"}
    \/ pc = "get_pool_tokens"
          /\ \/ DOMAIN frame.pool_tokens = frame.pool_addresses
             \/ \E p \in frame.pool_addresses \ DOMAIN frame.pool_tokens :
                   net[Token0Call(p)].st = "returned" /\ net[Token1Call(p)].st = "returned"
    \/ pc \in {"token0_decimals", "token1_decimals"}
          /\ (awaiting => net[DecimalsCall(TokenAt(pc))].st = "returned")
    \/ pc \in {"token0_symbol", "token1_symbol"}
          /\ (awaiting => net[SymbolCall(TokenAt(pc))].st = "returned")
    \/ pc = "session_close"

\* what a call still has to do: be answered, or sleep and be posted again
CallWork(call) ==
    CASE call.st = "inflight" -> 1
      [] call.st = "sleeping" -> 1 + call.left
      [] OTHER -> 0

RECURSIVE SumWork(_, _)
SumWork(n, cs) ==
    IF cs = {} THEN 0
    ELSE LET c == CHOOSE d \in cs : TRUE
         IN  CallWork(n[c]) + SumWork(n, cs \ {c})

\* the steps of get_token_conversion_rate still ahead
StepsAhead(step) ==
    CASE step = "get_raw_swap_logs" -> 7
      [] step = "get_pool_tokens" -> 6
      [] step = "token0_decimals" -> 5
      [] step = "token1_decimals" -> 4
      [] step = "token0_symbol" -> 3
      [] step = "token1_symbol" -> 2
      [] step = "session_close" -> 1
      [] OTHER -> 0

\* a measure no step increases: requests to come, faults to come, steps
\* ahead, pools to resolve, resolvers to start, work of the calls
Variant(r, f, step, aw, fr, n) ==
    100000 * (MaxRequests - r)
    + 1000 * (MaxFaults - f)
    + 40 * StepsAhead(step)
    + Cardinality(fr.pool_addresses \ DOMAIN fr.pool_tokens)
    + (IF aw THEN 0 ELSE 2)
    + SumWork(n, DOMAIN n)

\* C21, second half, as two safety properties: a request that has not come
\* to an end can always take a step, and every step lowers the measure, so
\* with every posted call answered, every sleep ending and the coroutine
\* resumed, a request returns or fails after finitely many steps
C21_NeverStalls ==
    pc \notin {"idle", "done", "failed"} => CanStep

C21_EveryStepLowersVariant ==
    [][Variant(reqNo', faults', pc', awaiting', frame', net')
         < Variant(reqNo, faults, pc, awaiting, frame, net)]_vars

====
